---- MODULE Spec2Model ----
(***************************************************************************)
(* Model of PoolOptimiser (kep_h.py): the hierarchical optimisation of a   *)
(* kidney-exchange pool.  One solve call builds a 0/1 model over the       *)
(* candidate chains, cycles and altruists, optimises each criterion but    *)
(* the last and locks its value, then enumerates the optima of the last    *)
(* criterion with no-good cuts.                                            *)
(*                                                                         *)
(* The solver (gurobipy) is modelled by what it promises: a solve returns  *)
(* any optimum of the current objective over the 0/1 assignments that      *)
(* satisfy every posted constraint, or reports that there is none.         *)
(***************************************************************************)
EXTENDS Integers, Sequences, FiniteSets, TLC

(***************************************************************************)
(* Bounds of the model.                                                    *)
(***************************************************************************)
MaxVal == 1          \* criterion values are drawn from -1..MaxVal
MaxCap == 3          \* max_solutions is drawn from 0..MaxCap
MaxCalls == 2        \* solve calls on one PoolOptimiser, in SpecCalls

(***************************************************************************)
(* Program constants.                                                      *)
(***************************************************************************)
\* EPSILON = 1e-7, kept exact as the fraction EpsNum / EpsDen
EpsNum == 1
EpsDen == 10000000
\* best_objval_found = -1 before the first final-rank solve
InitialBest == -1

Vals == (0 - 1)..MaxVal
Senses == {"MAX", "MIN"}

(***************************************************************************)
(* People, candidates and pools.  A person is <<kind, id>>; a paired donor *)
(* knows its paired_patients; a cycle is a sequence of patient-donor       *)
(* pairs; a chain adds the altruist of its altruist_edge.                  *)
(***************************************************************************)
P(i) == <<"patient", i>>
D(i) == <<"donor", i>>
A(i) == <<"altruist", i>>
Pair(p, d) == [patient |-> P(p), donor |-> D(d)]

EmptyPool ==
    [patients |-> <<>>, paired_donors |-> <<>>, altruists |-> <<>>,
     paired_patients |-> <<>>, cycles |-> <<>>, chains |-> <<>>]

\* people, but no cycle or chain among them
NoCandidatePool ==
    [patients |-> <<P(1)>>, paired_donors |-> <<D(1)>>, altruists |-> <<>>,
     paired_patients |-> (D(1) :> {P(1)}), cycles |-> <<>>, chains |-> <<>>]

OneCyclePool ==
    [patients |-> <<P(1), P(2)>>, paired_donors |-> <<D(1), D(2)>>,
     altruists |-> <<>>,
     paired_patients |-> (D(1) :> {P(1)}) @@ (D(2) :> {P(2)}),
     cycles |-> << [index |-> 0, pd_pairs |-> <<Pair(1, 1), Pair(2, 2)>>] >>,
     chains |-> <<>>]

\* two cycles that share patient 1 (and its only donor)
OverlapPool ==
    [patients |-> <<P(1), P(2), P(3)>>,
     paired_donors |-> <<D(1), D(2), D(3)>>,
     altruists |-> <<>>,
     paired_patients |-> (D(1) :> {P(1)}) @@ (D(2) :> {P(2)}) @@ (D(3) :> {P(3)}),
     cycles |-> << [index |-> 0, pd_pairs |-> <<Pair(1, 1), Pair(2, 2)>>],
                   [index |-> 1, pd_pairs |-> <<Pair(1, 1), Pair(3, 3)>>] >>,
     chains |-> <<>>]

\* two cycles with no person in common
DisjointPool ==
    [patients |-> <<P(1), P(2), P(3), P(4)>>,
     paired_donors |-> <<D(1), D(2), D(3), D(4)>>,
     altruists |-> <<>>,
     paired_patients |-> (D(1) :> {P(1)}) @@ (D(2) :> {P(2)})
                         @@ (D(3) :> {P(3)}) @@ (D(4) :> {P(4)}),
     cycles |-> << [index |-> 0, pd_pairs |-> <<Pair(1, 1), Pair(2, 2)>>],
                   [index |-> 1, pd_pairs |-> <<Pair(3, 3), Pair(4, 4)>>] >>,
     chains |-> <<>>]

\* donor 1 is paired with patients 1 and 2; the two cycles share donor 1 only
SharedDonorPool ==
    [patients |-> <<P(1), P(2), P(3), P(4)>>,
     paired_donors |-> <<D(1), D(3), D(4)>>,
     altruists |-> <<>>,
     paired_patients |-> (D(1) :> {P(1), P(2)}) @@ (D(3) :> {P(3)})
                         @@ (D(4) :> {P(4)}),
     cycles |-> << [index |-> 0, pd_pairs |-> <<Pair(1, 1), Pair(3, 3)>>],
                   [index |-> 1, pd_pairs |-> <<Pair(2, 1), Pair(4, 4)>>] >>,
     chains |-> <<>>]

\* one altruist that can start one chain
ChainPool ==
    [patients |-> <<P(1)>>, paired_donors |-> <<D(1)>>,
     altruists |-> <<A(1)>>,
     paired_patients |-> (D(1) :> {P(1)}),
     cycles |-> <<>>,
     chains |-> << [index |-> 0, altruist |-> A(1),
                    pd_pairs |-> <<Pair(1, 1)>>] >>]

\* two altruists and nothing they could donate to
TwoAltruistPool ==
    [patients |-> <<>>, paired_donors |-> <<>>,
     altruists |-> <<A(1), A(2)>>,
     paired_patients |-> <<>>, cycles |-> <<>>, chains |-> <<>>]

Pools == {EmptyPool, NoCandidatePool, OneCyclePool, OverlapPool, DisjointPool,
          SharedDonorPool, ChainPool, TwoAltruistPool}

Range(s) == {s[i] : i \in DOMAIN s}

Persons(pl) == Range(pl.patients) \cup Range(pl.paired_donors)
               \cup Range(pl.altruists)

(***************************************************************************)
(* Decision variables: one per chain, per cycle and per altruist, named as *)
(* in model.addVar.                                                        *)
(***************************************************************************)
ChainVar(chain) == <<"chain", chain.index>>
CycleVar(cycle) == <<"cycle", cycle.index>>
AltruistVar(altruist) == <<"altruist", altruist[2]>>

\* the Var object that model.addVar returns: a variable of one Model()
Var(model, name) == [model |-> model, name |-> name]

ModelVars(pl) == {ChainVar(c) : c \in Range(pl.chains)}
                 \cup {CycleVar(c) : c \in Range(pl.cycles)}
                 \cup {AltruistVar(a) : a \in Range(pl.altruists)}

RECURSIVE SumOver(_, _)
SumOver(f, S) ==
    IF S = {} THEN 0
    ELSE LET x == CHOOSE y \in S : TRUE
         IN  f[x] + SumOver(f, S \ {x})

\* quicksum(list of variables): the coefficient of a variable is the number
\* of times the list holds it
Quicksum(vs, seq) ==
    [v \in vs |-> Cardinality({i \in DOMAIN seq : seq[i].name = v})]

\* the value of a linear expression under the assignment "the variables of X
\* are 1, the others 0"
Eval(coef, X) == SumOver(coef, X)

Holds(c, X) ==
    CASE c.op = "<=" -> Eval(c.coef, X) <= c.rhs
      [] c.op = ">=" -> Eval(c.coef, X) >= c.rhs
      [] c.op = "==" -> Eval(c.coef, X) = c.rhs

\* variant: the new constraint replaces the ones posted before
addConstr_replacing(cs, c) == << c >>

\* model.addConstr
addConstr(cs, c) == Append(cs, c)

\* the assignments the model admits
Feasible(vs, cs) ==
    {X \in SUBSET vs : \A i \in DOMAIN cs : Holds(cs[i], X)}

VARIABLES
    pool,               \* self.pool with self.cycles and self.chains
    opt_criteria,       \* the criteria, each [sense, val]
    max_solutions,      \* the argument of solve
    pc,                 \* position in solve
    mip_vars,           \* person.mip_vars of every person
    constrs,            \* the constraints posted on the model, in order
    rank,               \* index of the criterion to solve next
    locked,             \* the objVal locked for each earlier criterion
    n_solutions,
    best_objval_found,
    emitted,            \* the selections printed so far
    emitted_objval,     \* the objVal of each printed selection
    n_final_solves,     \* final-rank calls of _optimise so far
    stop,               \* how the final-rank loop ended
    result,             \* the tuple solve returned
    exc,                \* the exception solve raised
    solve_status,       \* the local solve_status of solve
    call,               \* which call of solve this is, and so which Model()
    prev_feasibility    \* the feasibility constraints of the call before

vars == <<pool, opt_criteria, max_solutions, pc, mip_vars, constrs, rank,
          locked, n_solutions, best_objval_found, emitted, emitted_objval,
          n_final_solves, stop, result, exc, solve_status, call,
          prev_feasibility>>

NoResult == [objval |-> 0, n_solutions |-> 0 - 1, limit_reached |-> FALSE]

Criteria(pl) == [sense : Senses, val : [ModelVars(pl) -> Vals]]

\* the final criterion alone, or one earlier criterion and the final one
\* (longer lists are drawn by SpecLex)
CriteriaSeqs(pl) == [{1} -> Criteria(pl)] \cup [{1, 2} -> Criteria(pl)]

Init ==
    /\ pool \in Pools
    /\ opt_criteria \in CriteriaSeqs(pool)
    /\ max_solutions \in 0..MaxCap
    /\ pc = "start"
    /\ mip_vars = [p \in Persons(pool) |-> <<>>]
    /\ constrs = <<>>
    /\ rank = 1
    /\ locked = <<>>
    /\ n_solutions = 0
    /\ best_objval_found = InitialBest
    /\ emitted = <<>>
    /\ emitted_objval = <<>>
    /\ n_final_solves = 0
    /\ stop = "none"
    /\ result = NoResult
    /\ exc = "none"
    /\ solve_status = "unassigned"
    /\ call = 1
    /\ prev_feasibility = <<>>

(***************************************************************************)
(* _add_var_to_patients_and_donors: the variable of a candidate is put on  *)
(* the patient of each of its pairs, and on the donor of the pair when the *)
(* donor has more than one paired patient.                                 *)
(***************************************************************************)
\* variant: the patient's accumulator is left out
add_var_to_pair_donor_only(pl, mv, pd_pair, mip_var) ==
    IF Cardinality(pl.paired_patients[pd_pair.donor]) > 1
    THEN [mv EXCEPT ![pd_pair.donor] = Append(@, mip_var)]
    ELSE mv

add_var_to_pair(pl, mv, pd_pair, mip_var) ==
    LET mv1 == [mv EXCEPT ![pd_pair.patient] = Append(@, mip_var)]
    IN  IF Cardinality(pl.paired_patients[pd_pair.donor]) > 1
        THEN [mv1 EXCEPT ![pd_pair.donor] = Append(@, mip_var)]
        ELSE mv1

RECURSIVE add_var_to_patients_and_donors(_, _, _, _)
add_var_to_patients_and_donors(pl, mv, pd_pairs, mip_var) ==
    IF pd_pairs = <<>> THEN mv
    ELSE add_var_to_patients_and_donors(
             pl, add_var_to_pair(pl, mv, Head(pd_pairs), mip_var),
             Tail(pd_pairs), mip_var)

(***************************************************************************)
(* _create_vars_and_constraints.  The accumulators are reset, each         *)
(* altruist gets its own variable, then the chains and the cycles are      *)
(* accumulated, and one constraint is posted per person and per altruist.  *)
(***************************************************************************)
\* variant: the accumulators are not cleared
reset_mip_vars_kept(pl, mv) == mv

reset_mip_vars(pl, mv) == [p \in Persons(pl) |-> <<>>]

RECURSIVE add_altruist_vars(_, _, _)
add_altruist_vars(mv, altruists, model) ==
    IF altruists = <<>> THEN mv
    ELSE add_altruist_vars(
             [mv EXCEPT ![Head(altruists)] =
                  Append(@, Var(model, AltruistVar(Head(altruists))))],
             Tail(altruists), model)

RECURSIVE add_chain_vars(_, _, _, _)
add_chain_vars(pl, mv, chains, model) ==
    IF chains = <<>> THEN mv
    ELSE LET chain == Head(chains)
             mip_var == Var(model, ChainVar(chain))
             mv1 == [mv EXCEPT ![chain.altruist] = Append(@, mip_var)]
         IN  add_chain_vars(
                 pl,
                 add_var_to_patients_and_donors(pl, mv1, chain.pd_pairs,
                                                mip_var),
                 Tail(chains), model)

RECURSIVE add_cycle_vars(_, _, _, _)
add_cycle_vars(pl, mv, cycles, model) ==
    IF cycles = <<>> THEN mv
    ELSE LET cycle == Head(cycles)
         IN  add_cycle_vars(
                 pl,
                 add_var_to_patients_and_donors(pl, mv, cycle.pd_pairs,
                                                Var(model, CycleVar(cycle))),
                 Tail(cycles), model)

build_mip_vars(pl, mv, model) ==
    add_cycle_vars(pl,
        add_chain_vars(pl,
            add_altruist_vars(reset_mip_vars(pl, mv), pl.altruists, model),
            pl.chains, model),
        pl.cycles, model)

\* variant: a person may be used twice
person_constr_two(pl, mv, person) ==
    [coef |-> Quicksum(ModelVars(pl), mv[person]), op |-> "<=", rhs |-> 2]

person_constr(pl, mv, person) ==
    [coef |-> Quicksum(ModelVars(pl), mv[person]), op |-> "<=", rhs |-> 1]

\* variant: an altruist may be left out altogether
altruist_constr_at_most(pl, mv, altruist) ==
    [coef |-> Quicksum(ModelVars(pl), mv[altruist]), op |-> "<=", rhs |-> 1]

altruist_constr(pl, mv, altruist) ==
    [coef |-> Quicksum(ModelVars(pl), mv[altruist]), op |-> "==", rhs |-> 1]

build_constrs(pl, mv) ==
    LET people == pl.patients \o pl.paired_donors
    IN  [i \in 1..Len(people) |-> person_constr(pl, mv, people[i])]
        \o [i \in 1..Len(pl.altruists) |-> altruist_constr(pl, mv, pl.altruists[i])]

CreateVarsAndConstraints ==
    /\ pc = "start"
    /\ mip_vars' = build_mip_vars(pool, mip_vars, call)
    /\ constrs' = constrs \o build_constrs(pool, mip_vars')
    /\ pc' = "loop"
    /\ UNCHANGED <<pool, opt_criteria, max_solutions, rank, locked,
                   n_solutions, best_objval_found, emitted, emitted_objval,
                   n_final_solves, stop, result, exc, solve_status, call,
                   prev_feasibility>>

(***************************************************************************)
(* _optimise: the objective z is the sum of every variable times the       *)
(* criterion's value of its item; the solver answers with an optimum of z  *)
(* in the criterion's sense, or with a status other than OPTIMAL.          *)
(***************************************************************************)
objective(opt_criterion) == opt_criterion.val

Better(sense, a, b) == IF sense = "MAX" THEN a >= b ELSE a <= b

Optima(vs, cs, opt_criterion) ==
    LET z == objective(opt_criterion)
        F == Feasible(vs, cs)
    IN  {X \in F : \A Y \in F :
            Better(opt_criterion.sense, Eval(z, X), Eval(z, Y))}

NoSolution(st) == [status |-> st, X |-> {}, objVal |-> 0]

optimise(vs, cs, opt_criterion) ==
    LET z == objective(opt_criterion)
    IN  {[status |-> "OPTIMAL", X |-> X, objVal |-> Eval(z, X)] :
            X \in Optima(vs, cs, opt_criterion)}
        \cup (IF Feasible(vs, cs) = {}
              THEN {NoSolution("INFEASIBLE"), NoSolution("INF_OR_UNBD")}
              ELSE {})
        \cup {NoSolution("OTHER")}

(***************************************************************************)
(* _enforce_objective: z >= obj_val for MAX, z <= obj_val otherwise.       *)
(***************************************************************************)
\* variant: the sense is ignored
enforce_objective_always_ge(z, obj_val, sense) ==
    [coef |-> z, op |-> ">=", rhs |-> obj_val]

\* variant: the two senses are swapped
enforce_objective_swapped(z, obj_val, sense) ==
    IF sense = "MAX"
    THEN [coef |-> z, op |-> "<=", rhs |-> obj_val]
    ELSE [coef |-> z, op |-> ">=", rhs |-> obj_val]

enforce_objective(z, obj_val, sense) ==
    IF sense = "MAX"
    THEN [coef |-> z, op |-> ">=", rhs |-> obj_val]
    ELSE [coef |-> z, op |-> "<=", rhs |-> obj_val]

(***************************************************************************)
(* One pass of the loop over opt_criteria[:-1].  The raise of line 89      *)
(* evaluates str(solve_status), a local that is only assigned in the       *)
(* final-rank loop, so what leaves solve there is an UnboundLocalError.    *)
(***************************************************************************)
\* raise OptimisationException("Solver status was " + str(solve_status))
raise_with_status(st) ==
    IF st = "unassigned" THEN "UnboundLocalError" ELSE "OptimisationException"

IntermediateRank ==
    /\ pc = "loop"
    /\ rank < Len(opt_criteria)
    /\ \E out \in optimise(ModelVars(pool), constrs, opt_criteria[rank]) :
         IF out.status # "OPTIMAL"
         THEN /\ pc' = "raised"
              /\ exc' = raise_with_status(solve_status)
              /\ UNCHANGED <<constrs, locked, rank>>
         ELSE /\ constrs' = addConstr(constrs,
                      enforce_objective(objective(opt_criteria[rank]),
                                        out.objVal, opt_criteria[rank].sense))
              /\ locked' = Append(locked, out.objVal)
              /\ rank' = rank + 1
              /\ UNCHANGED <<pc, exc>>
    /\ UNCHANGED <<pool, opt_criteria, max_solutions, mip_vars, n_solutions,
                   best_objval_found, emitted, emitted_objval,
                   n_final_solves, stop, result, solve_status, call,
                   prev_feasibility>>

(***************************************************************************)
(* One iteration of the final-rank loop.                                   *)
(***************************************************************************)
\* objval + self.EPSILON < best_objval_found
degraded(objval, best) == objval * EpsDen + EpsNum < best * EpsDen

\* self._items_in_optimal_solution over chains, cycles and altruists
items_in_optimal_solution(X) == X

\* variant: the right-hand side is len(optimal_vars)
no_good_cut_slack(vs, optimal_vars) ==
    [coef |-> [v \in vs |-> IF v \in optimal_vars THEN 1 ELSE 0],
     op |-> "<=", rhs |-> Cardinality(optimal_vars)]

\* quicksum(optimal_vars) <= len(optimal_vars) - 1
no_good_cut(vs, optimal_vars) ==
    [coef |-> [v \in vs |-> IF v \in optimal_vars THEN 1 ELSE 0],
     op |-> "<=", rhs |-> Cardinality(optimal_vars) - 1]

cap_reached(n, cap) == n = cap

\* variant: only INFEASIBLE ends the enumeration
is_exhausted_infeasible_only(st) == st = "INFEASIBLE"

\* solve_status==GRB.status.INF_OR_UNBD or solve_status==GRB.status.INFEASIBLE
is_exhausted(st) == st = "INF_OR_UNBD" \/ st = "INFEASIBLE"

\* variant: the empty selection is not recognised
selection_is_empty_never(optimal_vars) == FALSE

\* len(optimal_vars) == 0
selection_is_empty(optimal_vars) == Cardinality(optimal_vars) = 0

Return(objval, n, limit, why) ==
    /\ pc' = "returned"
    /\ stop' = why
    /\ result' = [objval |-> objval, n_solutions |-> n, limit_reached |-> limit]

FinalRankIteration ==
    /\ pc = "loop"
    /\ rank = Len(opt_criteria)
    /\ n_final_solves' = n_final_solves + 1
    /\ \E out \in optimise(ModelVars(pool), constrs, opt_criteria[rank]) :
         /\ solve_status' = out.status
         /\ IF is_exhausted(out.status)
            THEN /\ Return(best_objval_found, n_solutions, FALSE, "infeasible")
                 /\ UNCHANGED <<constrs, n_solutions, best_objval_found,
                                emitted, emitted_objval, exc>>
            ELSE IF out.status # "OPTIMAL"
            THEN /\ pc' = "raised"
                 /\ exc' = raise_with_status(out.status)
                 /\ UNCHANGED <<constrs, n_solutions, best_objval_found,
                                emitted, emitted_objval, stop, result>>
            ELSE IF degraded(out.objVal, best_objval_found)
            THEN /\ Return(best_objval_found, n_solutions, FALSE, "degraded")
                 /\ UNCHANGED <<constrs, n_solutions, best_objval_found,
                                emitted, emitted_objval, exc>>
            ELSE LET optimal_vars == items_in_optimal_solution(out.X)
                 IN  /\ best_objval_found' = out.objVal
                     /\ n_solutions' = n_solutions + 1
                     /\ emitted' = Append(emitted, optimal_vars)
                     /\ emitted_objval' = Append(emitted_objval, out.objVal)
                     /\ exc' = exc
                     /\ IF cap_reached(n_solutions', max_solutions)
                        THEN /\ Return(best_objval_found', n_solutions', TRUE, "max")
                             /\ UNCHANGED constrs
                        ELSE IF selection_is_empty(optimal_vars)
                        THEN /\ Return(best_objval_found', n_solutions', FALSE, "empty")
                             /\ UNCHANGED constrs
                        ELSE /\ constrs' = addConstr(constrs,
                                     no_good_cut(ModelVars(pool), optimal_vars))
                             /\ UNCHANGED <<pc, stop, result>>
    /\ UNCHANGED <<pool, opt_criteria, max_solutions, mip_vars, rank, locked,
                   call, prev_feasibility>>

Next ==
    \/ CreateVarsAndConstraints
    \/ IntermediateRank
    \/ FinalRankIteration

Spec == Init /\ [][Next]_vars

(***************************************************************************)
(* A further call of solve on the same PoolOptimiser.  The people of the   *)
(* pool keep their mip_vars from the call before; everything else is local *)
(* to solve and starts afresh, on a new Model().                           *)
(***************************************************************************)
SolveAgain ==
    /\ pc \in {"returned", "raised"}
    /\ call < MaxCalls
    /\ call' = call + 1
    /\ prev_feasibility' = SubSeq(constrs, 1,
           Len(pool.patients) + Len(pool.paired_donors) + Len(pool.altruists))
    /\ max_solutions' \in 0..MaxCap
    /\ pc' = "start"
    /\ constrs' = <<>>
    /\ rank' = 1
    /\ locked' = <<>>
    /\ n_solutions' = 0
    /\ best_objval_found' = InitialBest
    /\ emitted' = <<>>
    /\ emitted_objval' = <<>>
    /\ n_final_solves' = 0
    /\ stop' = "none"
    /\ result' = NoResult
    /\ exc' = "none"
    /\ solve_status' = "unassigned"
    /\ UNCHANGED <<pool, opt_criteria, mip_vars>>

NextCalls ==
    \/ Next
    \/ SolveAgain

SpecCalls == Init /\ [][NextCalls]_vars

(***************************************************************************)
(* A second specification for the properties of the rank locks: longer     *)
(* criteria lists, over the pools with two competing candidates, with      *)
(* criteria that score each item 0 or 1, and with no cap or the largest.   *)
(***************************************************************************)
LexCriteria == 3     \* opt_criteria has 1..LexCriteria entries

LexVals == {0, 1}

LexPools == {OverlapPool, DisjointPool, ChainPool}

LexCriteriaSeqs(pl) ==
    UNION {[1..n -> [sense : Senses, val : [ModelVars(pl) -> LexVals]]] :
              n \in 1..LexCriteria}

InitLex ==
    /\ pool \in LexPools
    /\ opt_criteria \in LexCriteriaSeqs(pool)
    /\ max_solutions \in {0, MaxCap}
    /\ pc = "start"
    /\ mip_vars = [p \in Persons(pool) |-> <<>>]
    /\ constrs = <<>>
    /\ rank = 1
    /\ locked = <<>>
    /\ n_solutions = 0
    /\ best_objval_found = InitialBest
    /\ emitted = <<>>
    /\ emitted_objval = <<>>
    /\ n_final_solves = 0
    /\ stop = "none"
    /\ result = NoResult
    /\ exc = "none"
    /\ solve_status = "unassigned"
    /\ call = 1
    /\ prev_feasibility = <<>>

SpecLex == InitLex /\ [][Next]_vars

(***************************************************************************)
(* What a selection is in terms of the pool alone: which selected cycles   *)
(* and chains use a person, which chains an altruist starts.               *)
(***************************************************************************)
Candidates(pl) == Range(pl.chains) \cup Range(pl.cycles)

CandidateVar(c) ==
    IF "altruist" \in DOMAIN c THEN ChainVar(c) ELSE CycleVar(c)

UsesPerson(c, person) ==
    \E i \in DOMAIN c.pd_pairs :
        c.pd_pairs[i].patient = person \/ c.pd_pairs[i].donor = person

SelectedUsing(pl, X, person) ==
    {c \in Candidates(pl) : CandidateVar(c) \in X /\ UsesPerson(c, person)}

SelectedChainsOf(pl, X, altruist) ==
    {c \in Range(pl.chains) : ChainVar(c) \in X /\ c.altruist = altruist}

IsFeasibleSelection(pl, X) ==
    /\ \A p \in Range(pl.patients) :
           Cardinality(SelectedUsing(pl, X, p)) <= 1
    /\ \A d \in Range(pl.paired_donors) :
           Cardinality(pl.paired_patients[d]) > 1
               => Cardinality(SelectedUsing(pl, X, d)) <= 1
    /\ \A a \in Range(pl.altruists) :
           (IF AltruistVar(a) \in X THEN 1 ELSE 0)
               + Cardinality(SelectedChainsOf(pl, X, a)) = 1

FeasibleSelections(pl) ==
    {X \in SUBSET ModelVars(pl) : IsFeasibleSelection(pl, X)}

\* the value of a selection under a criterion
Value(opt_criterion, X) == SumOver(opt_criterion.val, X)

NotWorse(sense, a, b) ==
    (sense = "MAX" /\ a >= b) \/ (sense = "MIN" /\ a <= b)

\* the feasible selections that attain the locked values of ranks 1..k-1
AttainingLocks(k) ==
    {X \in FeasibleSelections(pool) :
        \A j \in 1..(k - 1) : Value(opt_criteria[j], X) = locked[j]}

IsOptimumOver(v, opt_criterion, S) ==
    /\ \E X \in S : Value(opt_criterion, X) = v
    /\ \A Y \in S : NotWorse(opt_criterion.sense, v, Value(opt_criterion, Y))

\* the selections the enumeration is to find, once every rank is locked
TiedOptimal ==
    LET last == opt_criteria[Len(opt_criteria)]
        S == AttainingLocks(Len(opt_criteria))
    IN  {X \in S : \A Y \in S :
            NotWorse(last.sense, Value(last, X), Value(last, Y))}

(***************************************************************************)
(* C1: every selection emitted by solve is feasible: each patient, and     *)
(* each paired donor with more than one paired patient, is used by at most *)
(* one selected cycle or chain, and for each altruist exactly one of its   *)
(* own variable and the chains it starts is selected.                      *)
(***************************************************************************)
C1_EmittedFeasible ==
    \A i \in DOMAIN emitted : IsFeasibleSelection(pool, emitted[i])

\* a selection was emitted that holds a cycle or chain while another
\* candidate using one of the same people was left out, and one that holds
\* an altruist's chain
C1_Witness ==
    /\ pool = SharedDonorPool
    /\ \E i \in DOMAIN emitted : \E c \in Candidates(pool) :
          /\ CandidateVar(c) \in emitted[i]
          /\ \E e \in Candidates(pool), person \in Persons(pool) :
                /\ e # c
                /\ CandidateVar(e) \notin emitted[i]
                /\ UsesPerson(c, person) /\ UsesPerson(e, person)

(***************************************************************************)
(* C2: the value locked after solving rank k is the optimum of criterion k *)
(* over the feasible selections that attain the locked values of ranks     *)
(* 1..k-1.                                                                 *)
(***************************************************************************)
C2_LockedIsRankOptimum ==
    \A k \in DOMAIN locked :
        IsOptimumOver(locked[k], opt_criteria[k], AttainingLocks(k))

\* two ranks are locked, and the second lock differs from the optimum of
\* the second criterion over all feasible selections
C2_Witness ==
    /\ Len(locked) >= 2
    /\ ~ IsOptimumOver(locked[2], opt_criteria[2], FeasibleSelections(pool))

(***************************************************************************)
(* C3: in every emitted selection each criterion before the last has the   *)
(* value that was locked for it.                                           *)
(***************************************************************************)
C3_EarlierRanksKept ==
    \A i \in DOMAIN emitted : \A k \in 1..(Len(opt_criteria) - 1) :
        /\ k \in DOMAIN locked
        /\ Value(opt_criteria[k], emitted[i]) = locked[k]

\* two selections were emitted after cuts, under two locks, in a pool where
\* some feasible selection misses the first lock
C3_Witness ==
    /\ Len(emitted) >= 2
    /\ Len(locked) >= 2
    /\ \E X \in FeasibleSelections(pool) :
           Value(opt_criteria[1], X) # locked[1]

(***************************************************************************)
(* Bookkeeping shared by the properties of the final-rank loop.            *)
(***************************************************************************)
LastCriterion == opt_criteria[Len(opt_criteria)]

\* the constraints of _create_vars_and_constraints, one per listed person
FeasibilityConstrCount(pl) ==
    Len(pl.patients) + Len(pl.paired_donors) + Len(pl.altruists)

\* the no-good cuts posted so far
CutCount ==
    IF pc = "start" THEN 0
    ELSE Len(constrs) - FeasibilityConstrCount(pool) - Len(locked)

\* a is worse than b by more than EPSILON, in the given sense
WorseByMoreThanEpsilon(sense, a, b) ==
    IF sense = "MAX"
    THEN a * EpsDen + EpsNum < b * EpsDen
    ELSE a * EpsDen > b * EpsDen + EpsNum

IsEmptyPool(pl) ==
    pl.cycles = <<>> /\ pl.chains = <<>> /\ pl.altruists = <<>>

(***************************************************************************)
(* C4: when solve returns with limit_reached = false, every feasible       *)
(* selection that attains the locked values of the earlier criteria and    *)
(* the optimum of the final criterion has been emitted.                    *)
(***************************************************************************)
C4_AllTiedOptimaEmitted ==
    (pc = "returned" /\ ~ result.limit_reached)
        => TiedOptimal \subseteq Range(emitted)

(***************************************************************************)
(* C5: for a maximizing and a minimizing final criterion alike, no emitted *)
(* selection has a final-criterion value worse by more than EPSILON than   *)
(* the value of a selection emitted before it (the loop stops, without     *)
(* emitting, at the first such solve).                                     *)
(***************************************************************************)
C5_OnlyTiedOptimaEmitted ==
    \A i \in DOMAIN emitted_objval : \A j \in 1..(i - 1) :
        ~ WorseByMoreThanEpsilon(LastCriterion.sense,
                                 emitted_objval[i], emitted_objval[j])

(***************************************************************************)
(* C6: no selection is emitted twice within one solve call.                *)
(***************************************************************************)
C6_NoSelectionEmittedTwice ==
    \A i, j \in DOMAIN emitted : i # j => emitted[i] # emitted[j]

\* three selections were emitted, so two cuts were posted and the solves
\* that followed them returned something else
C6_Witness ==
    /\ Len(emitted) >= 3
    /\ CutCount >= 2

(***************************************************************************)
(* C7: the final-rank loop reaches one of its stops, after at most as many *)
(* final-rank solves as there are distinct tied-optimal selections, plus   *)
(* one.                                                                    *)
(***************************************************************************)
C7_SolvesBoundedByTiedOptima ==
    pc = "returned"
        => /\ stop \in {"infeasible", "degraded", "empty", "max"}
           /\ n_final_solves <= Cardinality(TiedOptimal) + 1

(***************************************************************************)
(* C8: solve never emits more than max_solutions selections; the emission  *)
(* that brings the count to max_solutions returns at once with             *)
(* limit_reached = true, with no further cut and no further solve.         *)
(***************************************************************************)
C8_CapRespected ==
    /\ Len(emitted) <= max_solutions
    /\ (Len(emitted) = max_solutions /\ emitted # <<>>)
           => /\ pc = "returned"
              /\ stop = "max"
              /\ result.limit_reached
              /\ result.n_solutions = max_solutions
              /\ CutCount = max_solutions - 1
              /\ n_final_solves = max_solutions

(***************************************************************************)
(* C9: on a normal return the first component of the result is the best    *)
(* final-criterion value among the emitted selections (largest for MAX,    *)
(* smallest for MIN) and the second is the number of emitted selections.   *)
(***************************************************************************)
C9_ResultIsBestAndCount ==
    pc = "returned"
        => /\ result.n_solutions = Len(emitted)
           /\ emitted # <<>>
                 => /\ result.objval \in Range(emitted_objval)
                    /\ \A i \in DOMAIN emitted_objval :
                           NotWorse(LastCriterion.sense, result.objval,
                                    emitted_objval[i])

(***************************************************************************)
(* C10: with an empty pool and a cap of at least 2, solve emits the empty  *)
(* selection with objective 0 once, stops on the empty selection without   *)
(* posting a cut, and returns objective 0, solution_count 1 and            *)
(* limit_reached = false; with a cap of 1 the same emission stops on the   *)
(* cap and limit_reached is true.                                          *)
(***************************************************************************)
C10_EmptyPoolOutcome(min_cap) ==
    (IsEmptyPool(pool) /\ max_solutions >= min_cap /\ pc = "returned")
        => /\ emitted = << {} >>
           /\ emitted_objval = << 0 >>
           /\ stop = "empty"
           /\ CutCount = 0
           /\ n_final_solves = 1
           /\ result = [objval |-> 0, n_solutions |-> 1,
                        limit_reached |-> FALSE]

C10_EmptyPoolAmended ==
    /\ C10_EmptyPoolOutcome(2)
    /\ (IsEmptyPool(pool) /\ max_solutions = 1 /\ pc = "returned")
           => /\ emitted = << {} >>
              /\ stop = "max"
              /\ result = [objval |-> 0, n_solutions |-> 1,
                           limit_reached |-> TRUE]

\* the claim as made: for every cap >= 1
C10_EmptyPoolAnyCap == C10_EmptyPoolOutcome(1)

C10_Witness ==
    /\ IsEmptyPool(pool)
    /\ max_solutions >= 2
    /\ Len(opt_criteria) >= 2
    /\ pc = "returned"
    /\ stop = "empty"

(***************************************************************************)
(* C11: when the pool is exactly one cycle, which every criterion favours  *)
(* selecting, and the cap is above 1, the first final-rank solve selects   *)
(* the cycle, the solve after its exclusion is infeasible, and solve       *)
(* returns solution_count = 1 with limit_reached = false.                  *)
(***************************************************************************)
IsSingleCyclePool(pl) ==
    Len(pl.cycles) = 1 /\ pl.chains = <<>> /\ pl.altruists = <<>>

Favours(opt_criterion, v) ==
    \/ opt_criterion.sense = "MAX" /\ opt_criterion.val[v] > 0
    \/ opt_criterion.sense = "MIN" /\ opt_criterion.val[v] < 0

SingleCycleFavoured ==
    /\ IsSingleCyclePool(pool)
    /\ \A k \in DOMAIN opt_criteria :
           Favours(opt_criteria[k], CycleVar(pool.cycles[1]))
    /\ max_solutions > 1

C11_SingleCycleOutcome ==
    (SingleCycleFavoured /\ pc = "returned")
        => /\ emitted = << {CycleVar(pool.cycles[1])} >>
           /\ n_final_solves = 2
           /\ stop = "infeasible"
           /\ result.n_solutions = 1
           /\ ~ result.limit_reached

(***************************************************************************)
(* C12: when the solve of a criterion before the last is not OPTIMAL,      *)
(* solve fails with OptimisationException, with no lock posted for that    *)
(* criterion, nothing emitted and no result.                               *)
(***************************************************************************)
C12_IntermediateFailureRaises ==
    (pc = "raised" /\ rank < Len(opt_criteria))
        => /\ exc = "OptimisationException"
           /\ Len(locked) = rank - 1
           /\ emitted = <<>>
           /\ result = NoResult

(***************************************************************************)
(* C13: a final-rank solve with status INFEASIBLE or INF_OR_UNBD ends the  *)
(* enumeration normally: nothing is emitted for it and solve returns the   *)
(* objective and count accumulated so far with limit_reached = false; any  *)
(* other status than OPTIMAL raises OptimisationException and nothing is   *)
(* returned.                                                               *)
(***************************************************************************)
C13_FinalStatusHandling ==
    /\ solve_status \in {"INFEASIBLE", "INF_OR_UNBD"}
           => /\ pc = "returned"
              /\ stop = "infeasible"
              /\ exc = "none"
              /\ Len(emitted) = n_final_solves - 1
              /\ result = [objval |-> IF emitted = <<>> THEN InitialBest
                                      ELSE emitted_objval[Len(emitted_objval)],
                           n_solutions |-> Len(emitted),
                           limit_reached |-> FALSE]
    /\ solve_status \notin {"unassigned", "OPTIMAL", "INFEASIBLE", "INF_OR_UNBD"}
           => /\ pc = "raised"
              /\ exc = "OptimisationException"
              /\ result = NoResult

\* INF_OR_UNBD ended an enumeration that had emitted two selections
C13_Witness ==
    /\ solve_status = "INF_OR_UNBD"
    /\ Len(emitted) >= 2
    /\ pc = "returned"

(***************************************************************************)
(* C14: leaving the variables off a donor with exactly one paired patient  *)
(* loses nothing: the assignments the feasibility constraints admit are    *)
(* those in which every patient and every paired donor is used at most     *)
(* once, and in every emitted selection such a donor is used at most once. *)
(***************************************************************************)
IsFullyExclusive(pl, X) ==
    /\ \A person \in Range(pl.patients) \cup Range(pl.paired_donors) :
           Cardinality(SelectedUsing(pl, X, person)) <= 1
    /\ \A a \in Range(pl.altruists) :
           (IF AltruistVar(a) \in X THEN 1 ELSE 0)
               + Cardinality(SelectedChainsOf(pl, X, a)) = 1

SinglePatientDonors(pl) ==
    {d \in Range(pl.paired_donors) : Cardinality(pl.paired_patients[d]) = 1}

C14_ElisionSound ==
    /\ pc # "start"
           => Feasible(ModelVars(pool),
                       SubSeq(constrs, 1, FeasibilityConstrCount(pool)))
                  = {X \in SUBSET ModelVars(pool) : IsFullyExclusive(pool, X)}
    /\ \A i \in DOMAIN emitted : \A d \in SinglePatientDonors(pool) :
           Cardinality(SelectedUsing(pool, emitted[i], d)) <= 1

\* a cycle was emitted while another cycle with the same single-patient
\* donor exists
C14_Witness ==
    \E i \in DOMAIN emitted : \E d \in SinglePatientDonors(pool) :
        /\ Cardinality(SelectedUsing(pool, emitted[i], d)) = 1
        /\ Cardinality({c \in Candidates(pool) : UsesPerson(c, d)}) >= 2

(***************************************************************************)
(* C15: the cut posted after an emission excludes the emitted selection    *)
(* and nothing else: every other selection that was feasible before the    *)
(* cut is feasible after it.                                               *)
(***************************************************************************)
C15_CutExcludesOnlyEmitted ==
    [][(Len(emitted') = Len(emitted) + 1 /\ Len(constrs') = Len(constrs) + 1)
          => Feasible(ModelVars(pool), constrs')
                 = Feasible(ModelVars(pool), constrs)
                       \ {emitted'[Len(emitted')]}]_vars

(***************************************************************************)
(* C16: _create_vars_and_constraints clears every accumulator before       *)
(* filling it, so after the build each person's mip_vars holds exactly the *)
(* variables of this call's model for the candidates that use the person   *)
(* (and an altruist's own variable), and a second call posts the same      *)
(* feasibility constraints as the first.                                   *)
(***************************************************************************)
PairUses(pl, pd_pair, person) ==
    (IF pd_pair.patient = person THEN 1 ELSE 0)
    + (IF pd_pair.donor = person
          /\ Cardinality(pl.paired_patients[pd_pair.donor]) > 1
       THEN 1 ELSE 0)

RECURSIVE PairsUse(_, _, _)
PairsUse(pl, pd_pairs, person) ==
    IF pd_pairs = <<>> THEN 0
    ELSE PairUses(pl, Head(pd_pairs), person)
         + PairsUse(pl, Tail(pd_pairs), person)

\* how often the variable called name belongs on the person's accumulator
ExpectedCount(pl, person, name) ==
    IF \E c \in Range(pl.chains) : ChainVar(c) = name
    THEN LET c == CHOOSE c \in Range(pl.chains) : ChainVar(c) = name
         IN  (IF c.altruist = person THEN 1 ELSE 0)
             + PairsUse(pl, c.pd_pairs, person)
    ELSE IF \E c \in Range(pl.cycles) : CycleVar(c) = name
    THEN LET c == CHOOSE c \in Range(pl.cycles) : CycleVar(c) = name
         IN  PairsUse(pl, c.pd_pairs, person)
    ELSE IF person \in Range(pl.altruists) /\ AltruistVar(person) = name
    THEN 1 ELSE 0

C16_NoCrossCallContamination ==
    pc # "start"
        => /\ \A person \in Persons(pool) :
                 /\ \A i \in DOMAIN mip_vars[person] :
                        mip_vars[person][i].model = call
                 /\ \A name \in ModelVars(pool) :
                        Cardinality({i \in DOMAIN mip_vars[person] :
                                        mip_vars[person][i] = Var(call, name)})
                            = ExpectedCount(pool, person, name)
           /\ call >= 2
                 => SubSeq(constrs, 1, FeasibilityConstrCount(pool))
                        = prev_feasibility

\* the second call has rebuilt an accumulator that held two variables of
\* the first call
C16_Witness ==
    /\ call = 2
    /\ pc = "loop"
    /\ \E person \in Persons(pool) : Len(mip_vars[person]) >= 2

(***************************************************************************)
(* C17: within a solve call the constraints of the model only grow: every  *)
(* constraint, once posted, stays, and every emitted selection satisfies   *)
(* the feasibility constraints, the rank locks and the cuts posted before  *)
(* the solve that found it.                                                *)
(***************************************************************************)
ConstraintsKept ==
    /\ Len(constrs') >= Len(constrs)
    /\ SubSeq(constrs', 1, Len(constrs)) = constrs

EmittedUnderEarlierConstraints ==
    \A i \in DOMAIN emitted :
        \A j \in 1..(FeasibilityConstrCount(pool) + Len(locked) + i - 1) :
            j \in DOMAIN constrs /\ Holds(constrs[j], emitted[i])

C17_ConstraintsOnlyGrow ==
    [] EmittedUnderEarlierConstraints /\ [][ConstraintsKept]_vars

\* feasibility constraints, a rank lock and two cuts are in force together
C17_Witness ==
    /\ FeasibilityConstrCount(pool) >= 1
    /\ Len(locked) >= 1
    /\ CutCount >= 2
    /\ Len(emitted) >= 3

(***************************************************************************)
(* C18: whenever solve returns normally, at least one selection has been   *)
(* emitted and solution_count >= 1, whatever the first objective value.    *)
(***************************************************************************)
C18_AtLeastOneEmitted ==
    pc = "returned"
        => /\ result.n_solutions >= 1
           /\ Len(emitted) >= 1

(***************************************************************************)
(* C19: in a pool with an altruist every emitted selection holds at least  *)
(* one variable, the loop never stops on the empty selection, and every    *)
(* emission that does not reach the cap is followed by its cut.            *)
(***************************************************************************)
C19_AltruistNeverEmpty ==
    pool.altruists # <<>>
        => /\ \A i \in DOMAIN emitted : emitted[i] # {}
           /\ stop # "empty"
           /\ pc # "start"
                 => CutCount = Len(emitted) - (IF stop = "max" THEN 1 ELSE 0)

\* two selections with an altruist were emitted and cut
C19_Witness ==
    /\ pool.altruists # <<>>
    /\ Len(emitted) >= 2
    /\ CutCount >= 2

====
